---- MODULE Spec2Model ----
(***************************************************************************)
(* Detection-metric evaluation (task1/main.py): recall, precision and F1   *)
(* per confidence threshold, Average Precision per image size, and the     *)
(* selection of the best threshold and the best image size.                *)
(*                                                                         *)
(* Python floats are IEEE-754 binary64.  A float is modelled by its sign   *)
(* and its magnitude, the magnitude a natural N standing for N / 2^75, and *)
(* every arithmetic operation rounds its exact result to 53 significant    *)
(* bits, ties to even, as binary64 does.  The two agree on every value of  *)
(* magnitude 2^-23 or more (NoUnderflow below: the runs hold no smaller    *)
(* one).  Naturals wider than TLC's integers are sequences of 15-bit       *)
(* limbs, lowest first: <<0, 0, 0, 0, 0, 1>> is 1.0 and                    *)
(* <<0, 0, 0, 0, 16384>> is 0.5.                                           *)
(*                                                                         *)
(* Spec is main().  FnSpec is one turn of the loop of main started on any  *)
(* series of records, which applies calculate_metrics, calculate_ap and    *)
(* the best-threshold selection to every input within the bounds.          *)
(***************************************************************************)
EXTENDS Integers, Sequences, FiniteSets, TLC

----------------------------------------------------------------------------
(* Multi-limb naturals: <<>> is 0, the last limb is never 0.               *)

LimbBits == 15
Base == 2^LimbBits

Min(a, b) == IF a <= b THEN a ELSE b
Max(a, b) == IF a >= b THEN a ELSE b

RECURSIVE Trim(_)
Trim(a) ==
  IF a = <<>> THEN a
  ELSE IF a[Len(a)] = 0 THEN Trim(SubSeq(a, 1, Len(a) - 1)) ELSE a

Limb(a, k) == IF k >= 1 /\ k <= Len(a) THEN a[k] ELSE 0

RECURSIVE AddC(_, _, _, _)
AddC(a, b, k, c) ==
  IF k > Len(a) /\ k > Len(b)
  THEN (IF c = 0 THEN <<>> ELSE <<c>>)
  ELSE LET s == Limb(a, k) + Limb(b, k) + c
       IN  <<s % Base>> \o AddC(a, b, k + 1, s \div Base)

BAdd(a, b) == AddC(a, b, 1, 0)

RECURSIVE SubB(_, _, _, _)
SubB(a, b, k, c) ==
  IF k > Len(a) THEN <<>>
  ELSE LET s == Limb(a, k) - Limb(b, k) - c
       IN  IF s < 0 THEN <<s + Base>> \o SubB(a, b, k + 1, 1)
                    ELSE <<s>> \o SubB(a, b, k + 1, 0)

\* a - b for a >= b
BSub(a, b) == Trim(SubB(a, b, 1, 0))

RECURSIVE CmpFrom(_, _, _)
CmpFrom(a, b, k) ==
  IF k = 0 THEN 0
  ELSE IF a[k] < b[k] THEN -1
  ELSE IF a[k] > b[k] THEN 1
  ELSE CmpFrom(a, b, k - 1)

\* -1, 0, 1 as a < b, a = b, a > b
BCmp(a, b) ==
  IF Len(a) < Len(b) THEN -1
  ELSE IF Len(a) > Len(b) THEN 1
  ELSE CmpFrom(a, b, Len(a))

RECURSIVE MulC(_, _, _, _)
MulC(a, m, k, c) ==
  IF k > Len(a) THEN (IF c = 0 THEN <<>> ELSE <<c>>)
  ELSE LET s == a[k] * m + c
       IN  <<s % Base>> \o MulC(a, m, k + 1, s \div Base)

\* a * m for a limb m
BMulSmall(a, m) == IF m = 0 THEN <<>> ELSE MulC(a, m, 1, 0)

\* a * Base^n
ShiftLimbs(a, n) == IF a = <<>> THEN a ELSE [k \in 1..n |-> 0] \o a

\* a \div Base^n
DropLimbs(a, n) == IF Len(a) <= n THEN <<>> ELSE SubSeq(a, n + 1, Len(a))

RECURSIVE MulFrom(_, _, _)
MulFrom(a, b, k) ==
  IF k > Len(b) THEN <<>>
  ELSE BAdd(BMulSmall(a, b[k]), ShiftLimbs(MulFrom(a, b, k + 1), 1))

BMul(a, b) == MulFrom(a, b, 1)

LimbLen(x) == CHOOSE k \in 0..LimbBits : (k = 0 \/ 2^(k-1) <= x) /\ x < 2^k

\* number of significant bits
BitLen(a) == IF a = <<>> THEN 0 ELSE LimbBits * (Len(a) - 1) + LimbLen(a[Len(a)])

\* bit i (bit 0 is the lowest)
Bit(a, i) == (Limb(a, (i \div LimbBits) + 1) \div 2^(i % LimbBits)) % 2

\* some bit below bit i is set
LowNonzero(a, i) ==
  \/ \E j \in 1..Min(Len(a), i \div LimbBits) : a[j] # 0
  \/ Limb(a, (i \div LimbBits) + 1) % 2^(i % LimbBits) # 0

\* a with the bits below bit i cleared
ClearLow(a, i) ==
  Trim([j \in 1..Len(a) |->
          IF j <= i \div LimbBits THEN 0
          ELSE IF j = (i \div LimbBits) + 1 THEN a[j] - (a[j] % 2^(i % LimbBits))
          ELSE a[j]])

Pow2(i) == ShiftLimbs(<<2^(i % LimbBits)>>, i \div LimbBits)

\* Knuth's algorithm D, one quotient limb: the largest e with b * e <= r, r < b * Base
RECURSIVE FixDigit(_, _, _)
FixDigit(r, b, e) == IF BCmp(BMulSmall(b, e), r) > 0 THEN FixDigit(r, b, e - 1) ELSE e

Digit(r, b) ==
  IF BCmp(r, b) < 0 THEN 0
  ELSE FixDigit(r, b, Min(Base - 1,
         (Limb(r, Len(b) + 1) * Base + Limb(r, Len(b))) \div b[Len(b)]))

DivNext(prev, limb, b) ==
  LET r == IF prev.r = <<>> THEN (IF limb = 0 THEN <<>> ELSE <<limb>>)
           ELSE <<limb>> \o prev.r
      d == Digit(r, b)
  IN  [q |-> <<d>> \o prev.q, r |-> BSub(r, BMulSmall(b, d))]

RECURSIVE DivFrom(_, _, _)
DivFrom(a, b, k) ==
  IF k > Len(a) THEN [q |-> <<>>, r |-> <<>>]
  ELSE DivNext(DivFrom(a, b, k + 1), a[k], b)

\* [q |-> a \div b, r |-> a % b] for b # 0
BDivMod(a, b) ==
  LET s == 2^(LimbBits - LimbLen(b[Len(b)]))
      d == DivFrom(BMulSmall(a, s), BMulSmall(b, s), 1)
  IN  [q |-> Trim(d.q), r |-> d.r]

----------------------------------------------------------------------------
(* binary64 arithmetic.                                                    *)

MantBits == 53
FracLimbs == 5
FracBits == FracLimbs * LimbBits

Float(neg, mag) == [neg |-> neg /\ mag # <<>>, mag |-> mag]

Zero == Float(FALSE, <<>>)

\* the float of a small non-negative integer
FromInt(n) == Float(FALSE, IF n = 0 THEN <<>> ELSE ShiftLimbs(<<n>>, FracLimbs))

\* n (with something below its lowest bit when sticky) rounded at bit `drop`,
\* to nearest, ties to even
RoundAt(n, drop, sticky) ==
  IF drop <= 0 THEN n
  ELSE LET t == ClearLow(n, drop)
       IN  IF Bit(n, drop - 1) = 1
              /\ (sticky \/ LowNonzero(n, drop - 1) \/ Bit(n, drop) = 1)
           THEN BAdd(t, Pow2(drop)) ELSE t

\* n rounded to MantBits significant bits, and never below bit `floor`
Round(n, floor, sticky) == RoundAt(n, Max(BitLen(n) - MantBits, floor), sticky)

FNeg(x) == Float(~x.neg, x.mag)

FAdd(x, y) ==
  IF x.neg = y.neg THEN Float(x.neg, Round(BAdd(x.mag, y.mag), 0, FALSE))
  ELSE IF BCmp(x.mag, y.mag) >= 0
       THEN Float(x.neg, Round(BSub(x.mag, y.mag), 0, FALSE))
       ELSE Float(y.neg, Round(BSub(y.mag, x.mag), 0, FALSE))

FSub(x, y) == FAdd(x, FNeg(y))

FMul(x, y) ==
  Float(x.neg # y.neg,
        DropLimbs(Round(BMul(x.mag, y.mag), FracBits, FALSE), FracLimbs))

\* x / y for y # 0
FDiv(x, y) ==
  LET d == BDivMod(ShiftLimbs(x.mag, FracLimbs + 1), y.mag)
  IN  Float(x.neg # y.neg, DropLimbs(Round(d.q, LimbBits, d.r # <<>>), 1))

\* x < y
FLt(x, y) ==
  IF x.neg # y.neg THEN x.neg
  ELSE IF x.neg THEN BCmp(x.mag, y.mag) > 0 ELSE BCmp(x.mag, y.mag) < 0

FLe(x, y) == ~FLt(y, x)

\* x * 10^digits rounded to the nearest integer, ties to even: the number
\* that the format specs '.4f' and '4f' print
RECURSIVE Times10(_, _)
Times10(a, digits) == IF digits = 0 THEN a ELSE Times10(BMulSmall(a, 10), digits - 1)

Fixed(x, digits) ==
  LET q == DropLimbs(RoundAt(Times10(x.mag, digits), FracBits, FALSE), FracLimbs)
      v == Limb(q, 1) + Base * Limb(q, 2)
  IN  IF x.neg THEN -v ELSE v

----------------------------------------------------------------------------
(* The functions of main.py.  A record is <<conf_thresh, TP, FP, FN>>, a   *)
(* result is <<conf_thresh, recall, precision, f1_score>>; conf_thresh is  *)
(* kept in tenths.                                                         *)

image_sizes == <<512, 608, 800>>

\* Metric with the recall divided by FN alone
Metric_fn_denominator(rec) ==
  LET TP == rec[2]
      FP == rec[3]
      FN == rec[4]
      recall == IF FN > 0 THEN FDiv(FromInt(TP), FromInt(FN)) ELSE Zero
      precision == IF TP + FP > 0 THEN FDiv(FromInt(TP), FromInt(TP + FP)) ELSE Zero
      f1_score == IF FLt(Zero, FAdd(precision, recall))
                  THEN FDiv(FMul(FromInt(2), FMul(precision, recall)),
                            FAdd(precision, recall))
                  ELSE Zero
  IN  <<rec[1], recall, precision, f1_score>>

\* Metric with FP and FN taken for each other
Metric_swapped_counts(rec) ==
  LET TP == rec[2]
      FP == rec[4]
      FN == rec[3]
      recall == IF TP + FN > 0 THEN FDiv(FromInt(TP), FromInt(TP + FN)) ELSE Zero
      precision == IF TP + FP > 0 THEN FDiv(FromInt(TP), FromInt(TP + FP)) ELSE Zero
      f1_score == IF FLt(Zero, FAdd(precision, recall))
                  THEN FDiv(FMul(FromInt(2), FMul(precision, recall)),
                            FAdd(precision, recall))
                  ELSE Zero
  IN  <<rec[1], recall, precision, f1_score>>

\* Metric with the factor 2 of the F1-score left out
Metric_f1_undoubled(rec) ==
  LET TP == rec[2]
      FP == rec[3]
      FN == rec[4]
      recall == IF TP + FN > 0 THEN FDiv(FromInt(TP), FromInt(TP + FN)) ELSE Zero
      precision == IF TP + FP > 0 THEN FDiv(FromInt(TP), FromInt(TP + FP)) ELSE Zero
      f1_score == IF FLt(Zero, FAdd(precision, recall))
                  THEN FDiv(FMul(precision, recall), FAdd(precision, recall))
                  ELSE Zero
  IN  <<rec[1], recall, precision, f1_score>>

Metric(rec) ==
  LET TP == rec[2]
      FP == rec[3]
      FN == rec[4]
      recall == IF TP + FN > 0 THEN FDiv(FromInt(TP), FromInt(TP + FN)) ELSE Zero
      precision == IF TP + FP > 0 THEN FDiv(FromInt(TP), FromInt(TP + FP)) ELSE Zero
      f1_score == IF FLt(Zero, FAdd(precision, recall))
                  THEN FDiv(FMul(FromInt(2), FMul(precision, recall)),
                            FAdd(precision, recall))
                  ELSE Zero
  IN  <<rec[1], recall, precision, f1_score>>

calculate_metrics(d) == [i \in 1..Len(d) |-> Metric(d[i])]

\* np.argsort(a): the default sort is not stable, so every index order that
\* leaves a ascending is a possible outcome
RECURSIVE SortsOf(_, _)
SortsOf(a, S) ==
  IF S = {} THEN {<<>>}
  ELSE UNION {{<<i>> \o t : t \in SortsOf(a, S \ {i})} :
              i \in {j \in S : \A k \in S : FLe(a[j], a[k])}}

\* argsort that leaves the order as it is
argsort_unsorted(a) == {[i \in DOMAIN a |-> i]}

argsort(a) == SortsOf(a, DOMAIN a)

\* APLoop that never updates prev_recall
RECURSIVE APLoop_stale_prev(_, _, _, _, _)
APLoop_stale_prev(recalls, precisions, i, acc, prev_recall) ==
  IF i > Len(recalls) THEN acc
  ELSE APLoop_stale_prev(recalls, precisions, i + 1,
                         FAdd(acc, FMul(FSub(recalls[i], prev_recall), precisions[i])),
                         prev_recall)

RECURSIVE APLoop(_, _, _, _, _)
APLoop(recalls, precisions, i, acc, prev_recall) ==
  IF i > Len(recalls) THEN acc
  ELSE APLoop(recalls, precisions, i + 1,
              FAdd(acc, FMul(FSub(recalls[i], prev_recall), precisions[i])),
              recalls[i])

\* calculate_ap with sorted_indices the outcome of np.argsort(recalls)
calculate_ap(res, sorted_indices) ==
  APLoop([i \in 1..Len(res) |-> res[sorted_indices[i]][2]],
         [i \in 1..Len(res) |-> res[sorted_indices[i]][3]],
         1, Zero, Zero)

Recalls(res) == [i \in 1..Len(res) |-> res[i][2]]

\* MaxF1From that replaces the best on an equal f1: the last maximum
RECURSIVE MaxF1From_last(_, _, _)
MaxF1From_last(res, i, best) ==
  IF i > Len(res) THEN best
  ELSE MaxF1From_last(res, i + 1, IF FLe(best[4], res[i][4]) THEN res[i] ELSE best)

\* max(results, key=lambda x: x[3]) for a non-empty list: the first maximum
RECURSIVE MaxF1From(_, _, _)
MaxF1From(res, i, best) ==
  IF i > Len(res) THEN best
  ELSE MaxF1From(res, i + 1, IF FLt(best[4], res[i][4]) THEN res[i] ELSE best)

MaxByF1(res) == MaxF1From(res, 2, res[1])

\* MaxAPFrom that replaces the best on an equal ap: the last maximum
RECURSIVE MaxAPFrom_last(_, _, _)
MaxAPFrom_last(d, i, best) ==
  IF i > Len(d) THEN best
  ELSE MaxAPFrom_last(d, i + 1, IF FLe(best.ap, d[i].ap) THEN d[i] ELSE best)

\* max(final_results, key=lambda size: final_results[size]['ap']) for a
\* non-empty dict: the first key, in insertion order, of maximum ap
RECURSIVE MaxAPFrom(_, _, _)
MaxAPFrom(d, i, best) ==
  IF i > Len(d) THEN best
  ELSE MaxAPFrom(d, i + 1, IF FLt(best.ap, d[i].ap) THEN d[i] ELSE best)

MaxByAP(d) == MaxAPFrom(d, 2, d[1]).size

\* d[k] = v on a dict kept as the sequence of its items in insertion order
DictSet(d, k, v) ==
  IF \E i \in 1..Len(d) : d[i].size = k
  THEN [i \in 1..Len(d) |-> IF d[i].size = k THEN v ELSE d[i]]
  ELSE Append(d, v)

DictGet(d, k) == d[CHOOSE i \in 1..Len(d) : d[i].size = k]

\* the block of lines the report holds for one image size
ReportBlock(info) ==
  [size |-> info.size,
   ap |-> Fixed(info.ap, 4),
   conf_thresh |-> info.best_threshold[1],
   recall |-> Fixed(info.best_threshold[2], 4),
   precision |-> Fixed(info.best_threshold[3], 4),
   f1_score |-> Fixed(info.best_threshold[4], 4)]

----------------------------------------------------------------------------
(* Inputs.                                                                 *)

MaxWeight == 6
MaxLen == 3
MaxFileWeight == 1

Weight(rec) == 1 + rec[1] + rec[2] + rec[3] + rec[4]

\* the records of weight at most w
RecordsWithin(w) ==
  {rec \in (0..w) \X (0..w) \X (0..w) \X (0..w) : Weight(rec) <= w}

\* the series of at most n records and total weight at most w
RECURSIVE SeriesWithin(_, _)
SeriesWithin(w, n) ==
  IF n = 0 \/ w = 0 THEN {<<>>}
  ELSE {<<>>} \cup UNION {{<<rec>> \o s : s \in SeriesWithin(w - Weight(rec), n - 1)} :
                          rec \in RecordsWithin(w)}

\* thresholds 0.1, 0.5, 0.9 with counts 8/2/2, 5/1/5, 2/0/8
WorkedScenario == <<<<1, 8, 2, 2>>, <<5, 5, 1, 5>>, <<9, 2, 0, 8>>>>
\* two records of F1 = 2/5 whose computed f1 differ in the last bit
RoundingScenario == <<<<1, 1, 0, 3>>, <<5, 2, 3, 3>>>>
\* two records of equal computed f1
TieScenario == <<<<1, 1, 0, 1>>, <<5, 1, 1, 0>>>>
\* AP 0.6 and AP 0.75
AP60Scenario == <<<<5, 3, 2, 0>>>>
AP75Scenario == <<<<5, 3, 1, 0>>>>

Scenarios == {WorkedScenario, RoundingScenario, TieScenario, AP60Scenario, AP75Scenario}

\* what a data file may hold when main reads it
Files == SeriesWithin(MaxFileWeight, MaxLen) \cup Scenarios

\* what calculate_metrics may be given
Inputs == SeriesWithin(MaxWeight, MaxLen) \cup Scenarios

----------------------------------------------------------------------------
(* main(): its state and its steps.                                        *)

VARIABLES pc, n, data, results, ap, best_threshold, plots, final_results,
          best_size, report

vars == <<pc, n, data, results, ap, best_threshold, plots, final_results,
          best_size, report>>

Init ==
  /\ pc = "read"
  /\ n = 1
  /\ data = <<>>
  /\ results = <<>>
  /\ ap = Zero
  /\ best_threshold = <<>>
  /\ plots = <<>>
  /\ final_results = <<>>
  /\ best_size = 0
  /\ report = <<>>

\* data = read_file(file_path)
ReadFile ==
  /\ pc = "read"
  /\ \E d \in Files : data' = d
  /\ pc' = "metrics"
  /\ UNCHANGED <<n, results, ap, best_threshold, plots, final_results, best_size, report>>

\* results = calculate_metrics(data)
CalculateMetrics ==
  /\ pc = "metrics"
  /\ results' = calculate_metrics(data)
  /\ pc' = "ap"
  /\ UNCHANGED <<n, data, ap, best_threshold, plots, final_results, best_size, report>>

\* ap = calculate_ap(results)
CalculateAP ==
  /\ pc = "ap"
  /\ \E s \in argsort(Recalls(results)) : ap' = calculate_ap(results, s)
  /\ pc' = "plot"
  /\ UNCHANGED <<n, data, results, best_threshold, plots, final_results, best_size, report>>

\* generate_pr_curve(results, size, ap)
GeneratePRCurve ==
  /\ pc = "plot"
  /\ plots' = Append(plots, [size |-> image_sizes[n], points |-> Len(results),
                             title_ap |-> Fixed(ap, 6)])
  /\ pc' = "best"
  /\ UNCHANGED <<n, data, results, ap, best_threshold, final_results, best_size, report>>

\* BestThreshold that gives a default tuple on an empty list and goes on
BestThreshold_default ==
  /\ pc = "best"
  /\ pc' = "store"
  /\ best_threshold' = IF results = <<>> THEN <<0, Zero, Zero, Zero>> ELSE MaxByF1(results)
  /\ UNCHANGED <<n, data, results, ap, plots, final_results, best_size, report>>

\* best_threshold = max(results, key=lambda x: x[3]); max raises ValueError
\* on an empty list and nothing catches it
BestThreshold ==
  /\ pc = "best"
  /\ IF results = <<>>
     THEN pc' = "raised" /\ UNCHANGED best_threshold
     ELSE pc' = "store" /\ best_threshold' = MaxByF1(results)
  /\ UNCHANGED <<n, data, results, ap, plots, final_results, best_size, report>>

\* Store that writes every summary under the first image size
Store_first_key ==
  /\ pc = "store"
  /\ final_results' = DictSet(final_results, image_sizes[1],
                              [size |-> image_sizes[1], ap |-> ap,
                               best_threshold |-> best_threshold])
  /\ IF n < Len(image_sizes)
     THEN n' = n + 1 /\ pc' = "read"
     ELSE n' = n /\ pc' = "select"
  /\ UNCHANGED <<data, results, ap, best_threshold, plots, best_size, report>>

\* final_results[size] = {...}, and the for loop's next turn
Store ==
  /\ pc = "store"
  /\ final_results' = DictSet(final_results, image_sizes[n],
                              [size |-> image_sizes[n], ap |-> ap,
                               best_threshold |-> best_threshold])
  /\ IF n < Len(image_sizes)
     THEN n' = n + 1 /\ pc' = "read"
     ELSE n' = n /\ pc' = "select"
  /\ UNCHANGED <<data, results, ap, best_threshold, plots, best_size, report>>

\* best_size = max(final_results, key=...)
SelectBest ==
  /\ pc = "select"
  /\ best_size' = MaxByAP(final_results)
  /\ pc' = "report"
  /\ UNCHANGED <<n, data, results, ap, best_threshold, plots, final_results, report>>

\* the report file: the best configuration, then every image size
WriteReport ==
  /\ pc = "report"
  /\ report' = <<[best |-> ReportBlock(DictGet(final_results, best_size)),
                  items |-> [i \in 1..Len(final_results) |-> ReportBlock(final_results[i])]]>>
  /\ pc' = "done"
  /\ UNCHANGED <<n, data, results, ap, best_threshold, plots, final_results, best_size>>

Next ==
  \/ ReadFile
  \/ CalculateMetrics
  \/ CalculateAP
  \/ GeneratePRCurve
  \/ BestThreshold
  \/ Store
  \/ SelectBest
  \/ WriteReport

Spec == Init /\ [][Next]_vars

\* One turn of the loop of main on any series: calculate_metrics,
\* calculate_ap, the best threshold and the summary stored, for every input.
FnInit ==
  /\ pc = "metrics"
  /\ n = 1
  /\ data \in Inputs
  /\ results = <<>>
  /\ ap = Zero
  /\ best_threshold = <<>>
  /\ plots = <<>>
  /\ final_results = <<>>
  /\ best_size = 0
  /\ report = <<>>

FnNext ==
  \/ CalculateMetrics
  \/ CalculateAP
  \/ GeneratePRCurve
  \/ BestThreshold
  \/ Store

FnSpec == FnInit /\ [][FnNext]_vars
----------------------------------------------------------------------------
(* Properties.                                                             *)

\* Every float the run holds is 0 or has all MantBits bits above the lowest
\* bit the representation keeps: the arithmetic above is that of binary64.
Full(x) == x.mag = <<>> \/ BitLen(x.mag) >= MantBits

NoUnderflow ==
  /\ Full(ap)
  /\ \A i \in 1..Len(results) :
       Full(results[i][2]) /\ Full(results[i][3]) /\ Full(results[i][4])

One == FromInt(1)

InUnit(x) == FLe(Zero, x) /\ FLe(x, One)

\* |x - num/den| <= 10^-9
Near(x, num, den) ==
  LET a == BMulSmall(x.mag, den)
      b == BMulSmall(Pow2(FracBits), num)
      diff == IF x.neg THEN BAdd(a, b)
              ELSE IF BCmp(a, b) >= 0 THEN BSub(a, b) ELSE BSub(b, a)
  IN  BCmp(Times10(diff, 9), BMulSmall(Pow2(FracBits), den)) <= 0

Perms(k) == {f \in [1..k -> 1..k] : \A i, j \in 1..k : i # j => f[i] # f[j]}

Permuted(res, f) == [i \in 1..Len(res) |-> res[f[i]]]

\* every value calculate_ap may return on res
APOutcomes(res) == {calculate_ap(res, s) : s \in argsort(Recalls(res))}

\* tuples of equal recall have equal precision
TiesAgree(res) ==
  \A i, j \in 1..Len(res) : res[i][2] = res[j][2] => res[i][3] = res[j][3]

Keys(d) == [i \in 1..Len(d) |-> d[i].size]

\* C1 as stated: calculate_ap returns the same AP on every reordering of its
\* input, tuples of equal recall and different precision included.
C1_PermutationInvariant ==
  pc = "plot" =>
    \A f \in Perms(Len(results)) : APOutcomes(Permuted(results, f)) = {ap}

\* C1 amended: calculate_ap returns the same AP on every reordering of its
\* input whenever the tuples that share a recall also share a precision.
C1_PermutationInvariantTiesAgree ==
  (pc = "plot" /\ TiesAgree(results)) =>
    \A f \in Perms(Len(results)) : APOutcomes(Permuted(results, f)) = {ap}

\* three tuples of pairwise different recall, given out of recall order
C1_Witness ==
  /\ pc = "plot"
  /\ Len(results) = 3
  /\ FLt(results[2][2], results[1][2])
  /\ FLt(results[1][2], results[3][2])
  /\ FLt(Zero, ap)

\* C2: every tuple of calculate_metrics has recall, precision and f1 in
\* [0,1], and calculate_ap of the tuples is in [0,1].
C2_Bounds ==
  /\ pc # "metrics" =>
       \A i \in 1..Len(results) :
         InUnit(results[i][2]) /\ InUnit(results[i][3]) /\ InUnit(results[i][4])
  /\ pc \in {"plot", "best", "store", "raised", "read"} => InUnit(ap)

\* a series with a tuple of recall 1 and an AP strictly between 0 and 1
C2_Witness ==
  /\ pc = "plot"
  /\ \E i \in 1..Len(results) : results[i][2] = One /\ FLt(results[i][4], One)
  /\ FLt(Zero, ap) /\ FLt(ap, One)

\* the index orders that leave the recalls of res ascending
AscendingOrders(res) ==
  {f \in Perms(Len(res)) :
     \A i, j \in 1..Len(res) : i < j => ~FLt(res[f[j]][2], res[f[i]][2])}

\* the sum of the first k terms (recall_i - recall_(i-1)) * precision_i over
\* the points of res taken in the order f, with recall_0 = 0
RECURSIVE RightSum(_, _, _)
RightSum(res, f, k) ==
  IF k = 0 THEN Zero
  ELSE FAdd(RightSum(res, f, k - 1),
            FMul(FSub(res[f[k]][2], IF k = 1 THEN Zero ELSE res[f[k - 1]][2]),
                 res[f[k]][3]))

\* C3: calculate_ap returns the right-endpoint Riemann sum over an ascending
\* recall order of its points: 0 on the empty sequence,
\* recall_0 * precision_0 on one point, 0.69 on the worked scenario.
C3_RiemannSum ==
  pc = "plot" =>
       /\ \E f \in AscendingOrders(results) : ap = RightSum(results, f, Len(results))
       /\ results = <<>> => ap = Zero
       /\ Len(results) = 1 => ap = FMul(results[1][2], results[1][3])
       /\ data = WorkedScenario => Near(ap, 69, 100)

\* the worked scenario integrated
C3_Witness == pc = "plot" /\ data = WorkedScenario /\ Len(results) = 3

\* C4: calculate_metrics keeps length and order and derives tuple i from
\* record i alone by the guarded quotients, keeping its threshold; the
\* record 0/0/0 gives 0, 0, 0.
C4_MetricsPerRecord ==
  pc = "ap" =>
       /\ Len(results) = Len(data)
       /\ \A i \in 1..Len(data) :
            LET TP == data[i][2]
                FP == data[i][3]
                FN == data[i][4]
                r == results[i][2]
                p == results[i][3]
            IN  /\ results[i][1] = data[i][1]
                /\ r = IF TP + FN > 0 THEN FDiv(FromInt(TP), FromInt(TP + FN)) ELSE Zero
                /\ p = IF TP + FP > 0 THEN FDiv(FromInt(TP), FromInt(TP + FP)) ELSE Zero
                /\ results[i][4] =
                     IF FLt(Zero, FAdd(p, r))
                     THEN FDiv(FMul(FMul(FromInt(2), p), r), FAdd(p, r))
                     ELSE Zero
                /\ (TP = 0 /\ FP = 0 /\ FN = 0) =>
                     (r = Zero /\ p = Zero /\ results[i][4] = Zero)

\* three records of different thresholds, one of them 0/0/0, one of f1 > 0
C4_Witness ==
  /\ pc = "ap"
  /\ Len(data) = 3
  /\ data[1][1] # data[2][1]
  /\ \E i \in 1..3 : data[i][2] = 0 /\ data[i][3] = 0 /\ data[i][4] = 0
  /\ \E i \in 1..3 : FLt(Zero, results[i][4]) /\ FLt(results[i][4], One)

\* b is the element of res of maximum f1 and, among those, of smallest index
IsFirstMaxF1(b, res) ==
  \E i \in 1..Len(res) :
    /\ res[i] = b
    /\ \A j \in 1..Len(res) : FLe(res[j][4], res[i][4])
    /\ \A j \in 1..(i - 1) : FLt(res[j][4], res[i][4])

\* C5: the best_threshold stored for a resolution of non-empty series is the
\* element of maximum f1, the one of smallest index when several share it.
C5_BestThresholdFirstMax ==
  /\ pc = "store" => IsFirstMaxF1(best_threshold, results)
  /\ (pc = "read" /\ final_results # <<>>) =>
       /\ results # <<>>
       /\ final_results[Len(final_results)].size = image_sizes[n - 1]
       /\ IsFirstMaxF1(final_results[Len(final_results)].best_threshold, results)

\* a summary stored for a series whose two different tuples share the maximum f1
C5_Witness ==
  /\ pc = "read"
  /\ Len(final_results) = 1
  /\ Len(results) = 2
  /\ results[1][4] = results[2][4]
  /\ results[1] # results[2]
  /\ final_results[1].best_threshold = results[1]

\* C6: the best resolution is the one of maximum AP over 512, 608, 800, the
\* first of them in that order when several share the maximum.
C6_BestSizeFirstMaxAP ==
  pc \in {"report", "done"} =>
    /\ Keys(final_results) = image_sizes
    /\ \E i \in 1..Len(final_results) :
         /\ final_results[i].size = best_size
         /\ \A j \in 1..Len(final_results) : FLe(final_results[j].ap, final_results[i].ap)
         /\ \A j \in 1..(i - 1) : FLt(final_results[j].ap, final_results[i].ap)

\* APs 0.6, 0.75, 0.75 select 608
C6_Witness ==
  /\ pc = "done"
  /\ final_results[1].ap = FDiv(FromInt(3), FromInt(5))
  /\ final_results[2].ap = FDiv(FromInt(3), FromInt(4))
  /\ final_results[3].ap = FDiv(FromInt(3), FromInt(4))
  /\ best_size = 608

\* C7: on an empty series the best-by-F1 step raises: the run ends there,
\* with no summary stored for that resolution and no report written, though
\* calculate_ap returned 0 on the same series.
C7_EmptySeriesRaises ==
  /\ [][/\ (pc = "best" /\ results = <<>>) =>
             (pc' = "raised" /\ final_results' = final_results /\ report' = report)
        /\ pc # "raised"]_vars
  /\ [](pc = "raised" =>
          /\ data = <<>> /\ results = <<>>
          /\ ap = Zero
          /\ report = <<>>
          /\ best_size = 0
          /\ \A i \in 1..Len(final_results) : final_results[i].size # image_sizes[n])

\* the series of 608 is empty after a summary was stored for 512
C7_Witness == pc = "raised" /\ n = 2 /\ Len(final_results) = 1

\* C8 as stated: an error raised for one resolution does not keep the
\* remaining resolutions from being processed.
C8_ErrorIsLocal ==
  (pc = "raised" /\ n < Len(image_sizes)) => ENABLED Next

\* C9: selection and report come only after a summary is stored for every
\* resolution; summaries are stored once each, in the order 512, 608, 800,
\* and never modified; the report lists them in that order.
C9_SummariesBeforeSelection ==
  /\ [](/\ Len(final_results) <= Len(image_sizes)
        /\ Keys(final_results) = SubSeq(image_sizes, 1, Len(final_results))
        /\ pc \in {"select", "report", "done"} => Keys(final_results) = image_sizes
        /\ best_size # 0 => pc \in {"report", "done"}
        /\ report # <<>> =>
             /\ pc = "done"
             /\ Keys(report[1].items) = image_sizes
             /\ report[1].items = [i \in 1..Len(final_results) |-> ReportBlock(final_results[i])])
  /\ [][\/ final_results' = final_results
        \/ /\ pc = "store"
           /\ Len(final_results') = Len(final_results) + 1
           /\ SubSeq(final_results', 1, Len(final_results)) = final_results]_vars

\* a report written from three summaries
C9_Witness ==
  pc = "done" /\ report # <<>> /\ Len(final_results) = 3
    /\ final_results[1].ap # final_results[2].ap

\* 2*TP / (2*TP + FP + FN) of record a is below that of record b
ScoreLt(a, b) ==
  (2 * a[2]) * (IF b[2] = 0 THEN 1 ELSE 2 * b[2] + b[3] + b[4])
    < (2 * b[2]) * (IF a[2] = 0 THEN 1 ELSE 2 * a[2] + a[3] + a[4])

\* the first record of d maximising 2*TP / (2*TP + FP + FN)
FirstScoreMax(d) ==
  CHOOSE i \in 1..Len(d) :
    /\ \A j \in 1..Len(d) : ~ScoreLt(d[i], d[j])
    /\ \A j \in 1..(i - 1) : ScoreLt(d[j], d[i])

\* C10 as stated: the best-by-F1 tuple is the one from the first record
\* maximising 2*TP / (2*TP + FP + FN).
C10_BestIsFirstScoreMax ==
  pc = "store" => best_threshold = results[FirstScoreMax(data)]

\* C10 amended: f1 is 2*TP / (2*TP + FP + FN) up to rounding (within 1e-9)
\* when TP > 0 and is 0 exactly when TP = 0; the best-by-F1 tuple is the
\* first of maximum computed f1, and comes from a record maximising
\* 2*TP / (2*TP + FP + FN), not always the first such record.
C10_F1NearClosedForm ==
  /\ pc # "metrics" =>
       /\ Len(results) = Len(data)
       /\ \A i \in 1..Len(data) :
            /\ data[i][2] = 0 <=> results[i][4] = Zero
            /\ data[i][2] > 0 =>
                 Near(results[i][4], 2 * data[i][2], 2 * data[i][2] + data[i][3] + data[i][4])
  /\ pc = "store" =>
       /\ IsFirstMaxF1(best_threshold, results)
       /\ \E i \in 1..Len(data) :
            /\ results[i] = best_threshold
            /\ \A j \in 1..Len(data) : ~ScoreLt(data[i], data[j])

\* two records of equal 2*TP / (2*TP + FP + FN): the second is selected
C10_Witness ==
  /\ pc = "store"
  /\ data = RoundingScenario
  /\ ~ScoreLt(data[1], data[2]) /\ ~ScoreLt(data[2], data[1])
  /\ best_threshold = results[2]
  /\ best_threshold # results[1]
====
